---- MODULE Spec2Model ----
(***************************************************************************)
(* Scout execution pipeline of open-scouts: the executor entry (serve),    *)
(* the agent (executeScoutAgent), the settings-modal active toggle and the *)
(* stale-execution reaper, over the shared store (scouts, executions,      *)
(* steps, credential record).                                              *)
(*                                                                         *)
(* Every await of the code is a suspension point: one action runs the code *)
(* from one await to the next, so invocations interleave at awaits.  Two    *)
(* kinds of await are taken together with the action before them, which    *)
(* changes no behaviour another invocation can see: a write to the steps   *)
(* of the invocation's own execution (no other invocation reads or writes  *)
(* them), and a call of an external provider followed by code that reads   *)
(* no store.  Calls of the supabase client do not throw (they return       *)
(* {data, error}); analytics calls are fire-and-forget and leave no state. *)
(***************************************************************************)
EXTENDS Integers, Sequences, FiniteSets, TLC

\* ---------------------------------------------------------------- bounds
MaxTime == 3
MaxCallsPerMsg == 2
\* Spec: events of the environment (a tool call the model asks for, a
\* crash, a toggle of the user)
ConcEvents == 1
\* SpecClock: requests in sequence, and events of the environment
ClockInvocations == 2
ClockEvents == 1
\* SpecLoop: tool calls the model may ask for in the one run
LoopToolCalls == 7
\* SpecDedup: runs in sequence, and tool calls
DedupInvocations == 2
DedupToolCalls == 1
\* SpecTools: tool calls the model may ask for in the one run
ToolsToolCalls == 4
\* SpecFindings: runs in sequence, and tool calls
FindingsInvocations == 3
FindingsToolCalls == 1
\* SpecDispatch: firings of the dispatcher's cron job, tool calls
DispatchRuns == 2
DispatchToolCalls == 1
\* SpecReap: requests, and crashes and tool calls together
ReapInvocations == 2
ReapEvents == 1
\* SpecSweep: crashes and tool calls together
SweepEvents == 1
\* SpecConfig: crashes, toggles, configuration updates and tool calls together
ConfigEvents == 1

\* ------------------------------------------------------ program constants
maxLoops == 7
maxConsecutiveErrors == 3
DisableAfter == 3
EmbeddingDim == 1536
\* "max 150 characters" of the summarizer prompt
SummaryMaxLength == 150
RecentLimit == 20
\* similarityThreshold 0.85 as the fraction ThresholdNum / ThresholdDen
ThresholdNum == 17
ThresholdDen == 20

\* ------------------------------------------------------------- universes
Scouts == {1, 2}
Inv == {1, 2}
\* user_id of every scout (one user owns both scouts)
Owner == [s \in Scouts |-> "u1"]
Users == {"u1"}

\* Embedding vectors the provider may return: len is the array length, v the
\* first two components (all further components are 0).
ConcEmbeddings == {[len |-> EmbeddingDim, v |-> <<1, 0>>]}
DedupEmbeddings ==
  { [len |-> EmbeddingDim, v |-> <<1, 0>>],
    [len |-> EmbeddingDim, v |-> <<3, 1>>],
    [len |-> EmbeddingDim, v |-> <<0, 1>>],
    [len |-> EmbeddingDim, v |-> <<0, 0>>],
    [len |-> 2, v |-> <<1, 0>>] }

FindingsEmbeddings ==
  { [len |-> EmbeddingDim, v |-> <<1, 0>>],
    [len |-> EmbeddingDim, v |-> <<3, 1>>],
    [len |-> EmbeddingDim, v |-> <<0, 1>>],
    [len |-> 2, v |-> <<1, 0>>] }

\* Summary sentences the summarizer may return (an identifier and its length)
Summaries == {[id |-> "A", length |-> 80]}
DedupSummaries == Summaries \cup {[id |-> "L", length |-> 200]}

VARIABLES
  scouts,      \* table scouts: id -> row
  executions,  \* table scout_executions: sequence of rows, id = index
  steps,       \* table scout_execution_steps: per execution, sequence of rows
  keyStatus,   \* user_preferences: status of the user's Firecrawl key
  emails,      \* per execution: number of calls of sendScoutSuccessEmail
  inv,         \* the executor invocations (locals of serve/executeScoutAgent)
  now,         \* wall clock
  env          \* what the environment may still do (budgets, input sets)

vars == <<scouts, executions, steps, keyStatus, emails, inv, now, env>>

\* ------------------------------------------------------------ null values
\* A timestamp or an id of 0 is SQL NULL; the clock starts at 1.
NoEmbedding == [len |-> 0, v |-> <<0, 0>>]
NoSummary == [id |-> "null", length |-> 0]
NoResponse == [taskCompleted |-> FALSE, taskStatus |-> "none", src |-> "none", dupOf |-> 0]

\* Locals of an invocation that has not started.
IdleInv ==
  [ pc |-> "idle", sid |-> 0, snap_cf |-> 0, eid |-> 0,
    stepNumber |-> 0, loopCount |-> 0, consecutiveErrors |-> 0,
    calls |-> 0, call |-> "none",
    scoutResponse |-> NoResponse, summaryText |-> NoSummary,
    summaryEmbedding |-> NoEmbedding, isDuplicate |-> FALSE,
    similar |-> <<>>, err |-> "", resp |-> 0, runningExecutionId |-> 0,
    saw402 |-> FALSE, hadRunning |-> FALSE, emailError |-> FALSE,
    conversationMessages |-> <<>>, toolResult |-> "none" ]

\* ------------------------------------------------------- store operations
ExecIds == DOMAIN executions

\* .eq("scout_id", s).eq("status", "running")
RunningOf(s) ==
  {e \in ExecIds : executions[e].scout_id = s /\ executions[e].status = "running"}

\* (mutant) the running-execution check finds nothing
LatestRunning_Never(s) == 0

\* (mutant) the running-execution check does not filter on the status
LatestRunning_AnyStatus(s) ==
  LET rows == {e \in ExecIds : executions[e].scout_id = s} IN
    IF rows = {} THEN 0 ELSE CHOOSE e \in rows : \A f \in rows : f <= e

\* .order("created_at", desc).limit(1).single(): the newest running row, 0 if none
LatestRunning(s) ==
  IF RunningOf(s) = {} THEN 0
  ELSE CHOOSE e \in RunningOf(s) :
         \A f \in RunningOf(s) :
            \/ executions[f].created_at < executions[e].created_at
            \/ executions[f].created_at = executions[e].created_at /\ f <= e

\* A new row of scout_executions as the insert of executeScoutAgent makes it
NewExecution(s) ==
  [ scout_id |-> s, status |-> "running", created_at |-> now, completed_at |-> 0,
    error_message |-> "", results_summary |-> NoResponse,
    summary_text |-> NoSummary, summary_embedding |-> NoEmbedding,
    writes |-> 0 ]

\* createStep(supabase, executionId, stepNumber, {status}): append a step row
CreateStep(st, e, n, status) ==
  [st EXCEPT ![e] = Append(@, [step_number |-> n, status |-> status])]

\* updateStep(supabase, executionId, stepNumber, {status}): update the rows of
\* the execution with that step number (none if no such row)
UpdateStep(st, e, n, status) ==
  [st EXCEPT ![e] =
     [k \in DOMAIN @ |-> IF @[k].step_number = n
                           THEN [@[k] EXCEPT !.status = status] ELSE @[k]]]

\* getFirecrawlKeyForUser: the user's own key, or null when missing or invalid
GetFirecrawlKeyForUser_Fallback(u) == "key"
GetFirecrawlKeyForUser(u) == IF keyStatus[u] = "active" THEN "key" ELSE "null"

\* ------------------------------------------------------------ serve entry
SetInv(i, r) == inv' = [inv EXCEPT ![i] = r]

\* An invocation slot is free before its first request and after its answer
Free(i) == inv[i].pc \in {"idle", "done"}

\* serve, lines 49-74: fetch the scout; not found, inactive or incomplete
\* throws to the handler's catch, which answers 500.  (A new request takes
\* the lowest free slot.)
ServeEntry(i, s) ==
  IF s \notin Scouts \/ ~scouts[s].is_active \/ ~scouts[s].complete
    THEN SetInv(i, [IdleInv EXCEPT !.pc = "done", !.sid = s, !.resp = 500,
                       !.hadRunning = (s \in Scouts /\ RunningOf(s) # {})])
    ELSE SetInv(i, [IdleInv EXCEPT !.pc = "check_running", !.sid = s,
                       !.snap_cf = scouts[s].consecutive_failures,
                       !.hadRunning = (RunningOf(s) # {})])

\* A request with any scoutId
Invoke(i, s) ==
  /\ Free(i)
  /\ \A j \in Inv : j < i => ~Free(j)
  /\ env.invocations > 0
  /\ env' = [env EXCEPT !.invocations = @ - 1]
  /\ ServeEntry(i, s)
  /\ UNCHANGED <<scouts, executions, steps, keyStatus, emails, now>>

\* A request that the dispatcher fired for the scout s arrives
DispatchedRequest(i, s) ==
  /\ Free(i)
  /\ \A j \in Inv : j < i => ~Free(j)
  /\ env.dispatched[s] > 0
  /\ env' = [env EXCEPT !.dispatched[s] = @ - 1]
  /\ ServeEntry(i, s)
  /\ UNCHANGED <<scouts, executions, steps, keyStatus, emails, now>>

\* serve, lines 76-100: an existing running execution answers 409
CheckRunning(i) ==
  /\ inv[i].pc = "check_running"
  /\ LET runningExecution == LatestRunning(inv[i].sid) IN
       IF runningExecution # 0
         THEN SetInv(i, [inv[i] EXCEPT !.pc = "done", !.resp = 409,
                            !.runningExecutionId = runningExecution])
         ELSE SetInv(i, [inv[i] EXCEPT !.pc = "insert"])
  /\ UNCHANGED <<scouts, executions, steps, keyStatus, emails, now, env>>

\* executeScoutAgent, lines 101-119: insert the running row; on an insert
\* error the agent returns and serve answers 200.
InsertExecution(i) ==
  /\ inv[i].pc = "insert"
  /\ \/ /\ executions' = Append(executions, NewExecution(inv[i].sid))
        /\ steps' = Append(steps, <<>>)
        /\ emails' = Append(emails, 0)
        /\ SetInv(i, [inv[i] EXCEPT !.pc = "get_key", !.eid = Len(executions) + 1])
     \/ /\ SetInv(i, [inv[i] EXCEPT !.pc = "done", !.resp = 200])
        /\ UNCHANGED <<executions, steps, emails>>
  /\ UNCHANGED <<scouts, keyStatus, now, env>>

\* ------------------------------------------------------ agent: preparation
\* conversationMessages is read by the chat-completion requests of the loop
\* only (line 391); where control leaves the loop the model forgets it.
LeaveLoop(r) == [r EXCEPT !.conversationMessages = <<>>]

\* throw inside the try block of executeScoutAgent: control goes to its catch
Throw_Continue(r, msg) == [r EXCEPT !.err = msg]
Throw(r, msg) == LeaveLoop([r EXCEPT !.pc = "catch", !.err = msg])

\* executeScoutAgent, lines 131-151: resolve the user's Firecrawl key
GetKey(i) ==
  /\ inv[i].pc = "get_key"
  /\ IF GetFirecrawlKeyForUser(Owner[inv[i].sid]) = "null"
       THEN SetInv(i, Throw(inv[i], "no_key"))
       ELSE SetInv(i, [inv[i] EXCEPT !.pc = "load_recent"])
  /\ UNCHANGED <<scouts, executions, steps, keyStatus, emails, now, env>>

\* The rows the query of lines 161-169 selects, as a set
RecentSet(s) ==
  {e \in ExecIds : /\ executions[e].scout_id = s
                   /\ executions[e].status = "completed"
                   /\ executions[e].summary_text # NoSummary
                   /\ executions[e].summary_embedding # NoEmbedding}

\* .order("completed_at", desc): newest first (equal times: higher id first)
RECURSIVE OrderDesc(_)
OrderDesc(S) ==
  IF S = {} THEN <<>>
  ELSE LET m == CHOOSE e \in S : \A f \in S :
                  \/ executions[f].completed_at < executions[e].completed_at
                  \/ executions[f].completed_at = executions[e].completed_at /\ f <= e
       IN <<m>> \o OrderDesc(S \ {m})

\* .limit(n)
Limit(q, n) == SubSeq(q, 1, IF Len(q) < n THEN Len(q) ELSE n)

\* lines 171-180: keep the rows whose embedding is an array of length 1536
ValidEmbedding(row) == row.summary_embedding.len = EmbeddingDim

\* lines 157-186: similarExecutions
SimilarExecutions(s) ==
  LET recentExecutions == Limit(OrderDesc(RecentSet(s)), RecentLimit)
      rows == [k \in DOMAIN recentExecutions |->
                 [ id |-> recentExecutions[k],
                   summary_embedding |-> executions[recentExecutions[k]].summary_embedding ]]
  IN SelectSeq(rows, ValidEmbedding)

\* while (continueLoop && loopCount < maxLoops), line 339, with continueLoop
\* true; after the loop, line 753 decides on the iteration-limit write.
AfterLoop_NoLimit(r) == [r EXCEPT !.pc = "update_scout"]
AfterLoop(r) ==
  IF r.loopCount >= maxLoops THEN LeaveLoop([r EXCEPT !.pc = "max_loops_write"])
  ELSE LeaveLoop([r EXCEPT !.pc = "update_scout"])

LoopHead(r) ==
  IF r.loopCount < maxLoops THEN [r EXCEPT !.pc = "chat"] ELSE AfterLoop(r)

\* lines 157-186 and 319-331: load the recent executions, then create step
\* 1, "Initializing agent", in status running
\* lines 328-331: the conversation starts with the system prompt and the
\* user message.  A message of the conversation is kept as its role, the
\* number (id) of the assistant message it is or it answers, and for an
\* assistant message the number of its tool calls, for a tool message the
\* position of the call it carries the id of.
Message(role, id, calls) == [role |-> role, id |-> id, calls |-> calls]
InitialMessages == <<Message("system", 0, 0), Message("user", 0, 0)>>

LoadRecent(i) ==
  /\ inv[i].pc = "load_recent"
  /\ steps' = CreateStep(steps, inv[i].eid, inv[i].stepNumber + 1, "running")
  /\ SetInv(i, LoopHead([inv[i] EXCEPT !.stepNumber = @ + 1,
                                       !.similar = SimilarExecutions(inv[i].sid),
                                       !.conversationMessages = InitialMessages]))
  /\ UNCHANGED <<scouts, executions, keyStatus, emails, now, env>>

\* ------------------------------------------------------- agent: the loop
\* What the model may put in one assistant message: tool calls or a final
\* content.  A tool call is a searchWeb call, a scrapeWebsite call of a URL
\* on the blacklist, or a call whose arguments are not JSON; a scrapeWebsite
\* call of any other URL goes the way of a searchWeb call.  Of a message
\* with tool calls the locals keep the number of calls not yet begun; the
\* kind of a call is drawn when the loop reaches it.
CallKinds == {"search", "scrape_blacklisted", "bad_args"}
FinalContents == {"json_completed", "json_not_found", "text"}
\* What executeSearchTool / executeScrapeTool return: a result, or {error}
\* for a transport failure, a 401 or a 402 of the provider.
ToolResults == {"ok", "error", "error401", "error402"}

\* lines 534-564: the structured response of the final content
ParseFinal_RawCompleted(content) ==
  IF content = "json_not_found"
    THEN [taskCompleted |-> FALSE, taskStatus |-> "not_found", src |-> "parsed", dupOf |-> 0]
  ELSE IF content = "json_completed"
    THEN [taskCompleted |-> TRUE, taskStatus |-> "completed", src |-> "parsed", dupOf |-> 0]
  ELSE [taskCompleted |-> TRUE, taskStatus |-> "completed", src |-> "raw", dupOf |-> 0]
ParseFinal(content) ==
  IF content = "json_completed"
    THEN [taskCompleted |-> TRUE, taskStatus |-> "completed", src |-> "parsed", dupOf |-> 0]
  ELSE IF content = "json_not_found"
    THEN [taskCompleted |-> FALSE, taskStatus |-> "not_found", src |-> "parsed", dupOf |-> 0]
  ELSE [taskCompleted |-> FALSE, taskStatus |-> "insufficient_data", src |-> "raw", dupOf |-> 0]

\* lines 413-424: the next tool call of the message: count the step, parse
\* the arguments (JSON.parse throws on arguments that are not JSON), create
\* the step in status running
BeginCall_SkipsUnparsable(r, kind) ==
  [r EXCEPT !.stepNumber = @ + 1, !.calls = @ - 1, !.call = kind, !.pc = "tool_exec"]
BeginCall(r, kind) ==
  LET r1 == [r EXCEPT !.stepNumber = @ + 1, !.calls = @ - 1, !.call = kind]
  IN IF kind = "bad_args" THEN Throw(r1, "bad_args") ELSE [r1 EXCEPT !.pc = "tool_exec"]

BeginCallSteps(st, r, kind) ==
  IF kind = "bad_args" THEN st ELSE CreateStep(st, r.eid, r.stepNumber + 1, "running")

\* lines 339-424 and 530-579: one chat completion of the loop; its failure
\* throws; tool calls begin the first call; a final content is parsed and
\* the summarize step is created in status completed
\* lines 343-350: the reminder at every third iteration
Reminder(r) ==
  IF r.loopCount > 1 /\ r.loopCount % 3 = 0
    THEN [r EXCEPT !.conversationMessages = Append(@, Message("system", 0, 0))]
    ELSE r

\* line 409: conversationMessages.push(assistantMessage)
PushAssistant(r, n) ==
  [r EXCEPT !.conversationMessages = Append(@, Message("assistant", r.loopCount, n))]

ChatCompletion(i) ==
  /\ inv[i].pc = "chat"
  /\ LET r == Reminder([inv[i] EXCEPT !.loopCount = @ + 1]) IN
       \/ /\ SetInv(i, Throw(r, "openai_error"))
          /\ UNCHANGED <<env, steps>>
       \/ \E n \in 1..MaxCallsPerMsg, kind \in env.callKinds :
            /\ n <= env.events
            /\ env' = [env EXCEPT !.events = @ - n]
            /\ steps' = BeginCallSteps(steps, r, kind)
            /\ SetInv(i, BeginCall([PushAssistant(r, n) EXCEPT !.calls = n], kind))
       \/ \E content \in FinalContents :
            LET scoutResponse == ParseFinal(content) IN
              /\ steps' = CreateStep(steps, r.eid, r.stepNumber + 1, "completed")
              /\ SetInv(i, [LeaveLoop(PushAssistant(r, 0)) EXCEPT !.stepNumber = @ + 1,
                                     !.scoutResponse = scoutResponse,
                                     !.pc = IF scoutResponse.taskCompleted
                                              THEN "summary" ELSE "mark_completed"])
              /\ UNCHANGED env
  /\ UNCHANGED <<scouts, executions, keyStatus, emails, now>>

\* markFirecrawlKeyInvalid
MarkFirecrawlKeyInvalid_Noop(ks, u) == ks
MarkFirecrawlKeyInvalid(ks, u) == [ks EXCEPT ![u] = "invalid"]

\* lines 470-474: update scouts set is_active = false where user_id = u
DisableAllUserScouts_OnlyFirst(sc, u) ==
  [s \in Scouts |-> IF Owner[s] = u /\ s = 1 THEN [sc[s] EXCEPT !.is_active = FALSE] ELSE sc[s]]
DisableAllUserScouts(sc, u) ==
  [s \in Scouts |-> IF Owner[s] = u THEN [sc[s] EXCEPT !.is_active = FALSE] ELSE sc[s]]

\* line 512: the message of the consecutive-error cutoff carries the last error
TooManyErrors(lastError) ==
  IF lastError = "credits_exhausted" THEN "too_many_errors_last_credits_exhausted"
  ELSE IF lastError = "error401" THEN "too_many_errors_last_401"
  ELSE "too_many_errors_last_error"

\* lines 440-490: the error the tool call ends with.  The 402 branch throws
\* the credits-exhausted error inside the try of line 440, so the catch of
\* line 486 turns it into the tool result.
ToolError(res) == IF res = "error402" THEN "credits_exhausted" ELSE res

\* lines 500-519: consecutive-error accounting
CountError_CountsBlacklisted(r, hasError, isBlacklistedError) ==
  IF hasError THEN r.consecutiveErrors + 1 ELSE 0
CountError_NeverCounts(r, hasError, isBlacklistedError) ==
  IF hasError THEN r.consecutiveErrors ELSE 0
CountError(r, hasError, isBlacklistedError) ==
  IF hasError
    THEN IF ~isBlacklistedError THEN r.consecutiveErrors + 1 ELSE r.consecutiveErrors
    ELSE 0

\* lines 521-526: the tool message of the call just executed, with
\* tool_call_id: toolCall.id.  The call is the one of the last assistant
\* message at the position its calls not yet begun leave.
RECURSIVE LastAssistant(_)
LastAssistant(msgs) ==
  IF msgs[Len(msgs)].role = "assistant" THEN msgs[Len(msgs)]
  ELSE LastAssistant(SubSeq(msgs, 1, Len(msgs) - 1))

ToolMessage_FirstCallId(r) ==
  Message("tool", LastAssistant(r.conversationMessages).id, 1)
ToolMessage(r) ==
  LET assistantMessage == LastAssistant(r.conversationMessages)
  IN Message("tool", assistantMessage.id, assistantMessage.calls - r.calls)

PushTool(r) == [r EXCEPT !.conversationMessages = Append(@, ToolMessage(r))]

\* lines 426-529, then 413-424 for the next call: execute the tool call,
\* apply the 401/402 side effects, finalize the step, account the error,
\* answer the call; then begin the next call of the message or loop
ToolExec(i) ==
  /\ inv[i].pc = "tool_exec"
  /\ \E res \in env.toolResults :
       LET r == inv[i]
           u == Owner[r.sid]
           hasError == res # "ok"
           isBlacklistedError == r.call = "scrape_blacklisted"
           n == CountError(r, hasError, isBlacklistedError)
           r1 == [r EXCEPT !.consecutiveErrors = n,
                           !.saw402 = @ \/ res = "error402",
                           !.call = "none", !.toolResult = res]
           updated == UpdateStep(steps, r.eid, r.stepNumber,
                                 IF hasError THEN "failed" ELSE "completed")
       IN
         /\ keyStatus' = IF res \in {"error401", "error402"}
                           THEN MarkFirecrawlKeyInvalid(keyStatus, u) ELSE keyStatus
         /\ scouts' = IF res = "error402" THEN DisableAllUserScouts(scouts, u) ELSE scouts
         /\ IF hasError /\ ~isBlacklistedError /\ n >= maxConsecutiveErrors
              THEN /\ SetInv(i, Throw(r1, TooManyErrors(ToolError(res))))
                   /\ steps' = updated
              ELSE IF r1.calls = 0
                     THEN /\ SetInv(i, LoopHead(PushTool(r1)))
                          /\ steps' = updated
                     ELSE \E kind \in env.callKinds :
                            /\ SetInv(i, BeginCall(PushTool(r1), kind))
                            /\ steps' = BeginCallSteps(updated, r1, kind)
  /\ UNCHANGED <<executions, emails, now, env>>

\* ----------------------------------------------- agent: the final message
\* lines 580-638: the one-sentence summary and its embedding; an error
\* response or an exception of the summary call leaves both null, one of
\* the embedding call leaves the embedding null
GenerateSummary_FailureThrows(i) ==
  /\ inv[i].pc = "summary"
  /\ \/ \E t \in env.summaries, v \in env.embeddings :
          SetInv(i, [inv[i] EXCEPT !.pc = "mark_completed", !.summaryText = t,
                                   !.summaryEmbedding = v])
     \/ SetInv(i, Throw(inv[i], "summary_error"))
  /\ UNCHANGED <<scouts, executions, steps, keyStatus, emails, now, env>>
GenerateSummary(i) ==
  /\ inv[i].pc = "summary"
  /\ \/ \E t \in env.summaries, v \in env.embeddings \cup {NoEmbedding} :
          SetInv(i, [inv[i] EXCEPT !.pc = "mark_completed", !.summaryText = t,
                                   !.summaryEmbedding = v])
     \/ SetInv(i, [inv[i] EXCEPT !.pc = "mark_completed"])
  /\ UNCHANGED <<scouts, executions, steps, keyStatus, emails, now, env>>

\* cosineSimilarity(vecA, vecB) >= num / den for a threshold num / den > 0,
\* in integers: the quotient dot / (|a| |b|) is 0 when a norm is 0.
Dot(a, b) == a[1] * b[1] + a[2] * b[2]
SimilarityAtLeast_AtMost(vecA, vecB, num, den) ==
  LET dotProduct == Dot(vecA, vecB)
      normA2 == Dot(vecA, vecA)
      normB2 == Dot(vecB, vecB)
  IN IF normA2 = 0 \/ normB2 = 0 THEN FALSE
     ELSE \/ dotProduct <= 0
          \/ dotProduct * dotProduct * den * den <= num * num * normA2 * normB2
SimilarityAtLeast(vecA, vecB, num, den) ==
  LET dotProduct == Dot(vecA, vecB)
      normA2 == Dot(vecA, vecA)
      normB2 == Dot(vecB, vecB)
  IN IF normA2 = 0 \/ normB2 = 0 THEN FALSE
     ELSE /\ dotProduct > 0
          /\ dotProduct * dotProduct * den * den >= num * num * normA2 * normB2

\* lines 652-698: the first previous execution, in the order of
\* similarExecutions, whose similarity reaches similarityThreshold = num /
\* den; 0 if none.  Rows of another length than 1536 or than the current
\* embedding are skipped.
RECURSIVE FirstSimilarAt(_, _, _, _)
FirstSimilarAt(cur, prev, num, den) ==
  IF prev = <<>> THEN 0
  ELSE IF /\ Head(prev).summary_embedding.len = EmbeddingDim
          /\ Head(prev).summary_embedding.len = cur.len
          /\ SimilarityAtLeast(cur.v, Head(prev).summary_embedding.v, num, den)
         THEN Head(prev).id
         ELSE FirstSimilarAt(cur, Tail(prev), num, den)

\* line 643: similarityThreshold = 0.85
FirstSimilar(cur, prev) == FirstSimilarAt(cur, prev, ThresholdNum, ThresholdDen)

\* lines 641-707 with similarityThreshold = num / den
DuplicateAt(r, num, den) ==
  IF r.scoutResponse.taskCompleted /\ r.summaryEmbedding # NoEmbedding /\ Len(r.similar) > 0
    THEN FirstSimilarAt(r.summaryEmbedding, r.similar, num, den)
    ELSE 0

\* lines 641-707: duplicate detection: the execution this run duplicates, or 0
DuplicateOf_Never(r) == 0
DuplicateOf_OnlyNewest(r) ==
  IF r.scoutResponse.taskCompleted /\ r.summaryEmbedding # NoEmbedding /\ Len(r.similar) > 0
    THEN FirstSimilar(r.summaryEmbedding, SubSeq(r.similar, 1, 1))
    ELSE 0
DuplicateOf(r) == DuplicateAt(r, ThresholdNum, ThresholdDen)

\* lines 721-722: the condition of the success email
ShouldEmail_IgnoreDuplicate(r) == r.scoutResponse.taskCompleted
ShouldEmail_NeedsEmbedding(r) ==
  r.scoutResponse.taskCompleted /\ ~r.isDuplicate /\ r.summaryEmbedding # NoEmbedding
ShouldEmail(r) == r.scoutResponse.taskCompleted /\ ~r.isDuplicate

\* lines 641-719: duplicate detection, then the completed write
MarkCompleted(i) ==
  /\ inv[i].pc = "mark_completed"
  /\ LET dup == DuplicateOf(inv[i])
         r == [inv[i] EXCEPT !.scoutResponse.dupOf = dup, !.isDuplicate = (dup # 0)]
     IN /\ executions' = [executions EXCEPT ![r.eid] =
               [@ EXCEPT !.status = "completed", !.completed_at = now,
                         !.results_summary = r.scoutResponse,
                         !.summary_text = r.summaryText,
                         !.summary_embedding = r.summaryEmbedding,
                         !.writes = @ + 1]]
        /\ SetInv(i, IF ShouldEmail(r) THEN [r EXCEPT !.pc = "email"] ELSE AfterLoop(r))
  /\ UNCHANGED <<scouts, steps, keyStatus, emails, now, env>>

\* lines 721-733: the success email; the send may throw (emailError), which
\* the catch of line 727 logs
SendEmail_FailureThrows(i) ==
  /\ inv[i].pc = "email"
  /\ emails' = [emails EXCEPT ![inv[i].eid] = @ + 1]
  /\ \/ SetInv(i, AfterLoop(inv[i]))
     \/ SetInv(i, Throw([inv[i] EXCEPT !.emailError = TRUE], "email_error"))
  /\ UNCHANGED <<scouts, executions, steps, keyStatus, now, env>>
SendEmail(i) ==
  /\ inv[i].pc = "email"
  /\ emails' = [emails EXCEPT ![inv[i].eid] = @ + 1]
  /\ \E emailError \in BOOLEAN :
       SetInv(i, AfterLoop([inv[i] EXCEPT !.emailError = emailError]))
  /\ UNCHANGED <<scouts, executions, steps, keyStatus, now, env>>

\* lines 752-771: the iteration-limit write
incompleteSummary ==
  [taskCompleted |-> FALSE, taskStatus |-> "partial", src |-> "limit", dupOf |-> 0]

MaxLoopsWrite(i) ==
  /\ inv[i].pc = "max_loops_write"
  /\ executions' = [executions EXCEPT ![inv[i].eid] =
        [@ EXCEPT !.status = "completed", !.completed_at = now,
                  !.results_summary = incompleteSummary, !.writes = @ + 1]]
  /\ SetInv(i, [inv[i] EXCEPT !.pc = "update_scout"])
  /\ UNCHANGED <<scouts, steps, keyStatus, emails, now, env>>

\* lines 773-794, then serve lines 105-115: success bookkeeping, answer 200
UpdateScoutSuccess_KeepsCount(i) ==
  /\ inv[i].pc = "update_scout"
  /\ scouts' = [scouts EXCEPT ![inv[i].sid] = [@ EXCEPT !.last_run_at = now]]
  /\ SetInv(i, [inv[i] EXCEPT !.pc = "done", !.resp = 200])
  /\ UNCHANGED <<executions, steps, keyStatus, emails, now, env>>
UpdateScoutSuccess(i) ==
  /\ inv[i].pc = "update_scout"
  /\ scouts' = [scouts EXCEPT ![inv[i].sid] =
        [@ EXCEPT !.last_run_at = now, !.consecutive_failures = 0]]
  /\ SetInv(i, [inv[i] EXCEPT !.pc = "done", !.resp = 200])
  /\ UNCHANGED <<executions, steps, keyStatus, emails, now, env>>

\* ------------------------------------------------------- agent: the catch
\* lines 795-824: mark the current step and the execution failed
CatchMarkFailed(i) ==
  /\ inv[i].pc = "catch"
  /\ steps' = IF inv[i].stepNumber > 0
                THEN UpdateStep(steps, inv[i].eid, inv[i].stepNumber, "failed")
                ELSE steps
  /\ executions' = [executions EXCEPT ![inv[i].eid] =
        [@ EXCEPT !.status = "failed", !.completed_at = now,
                  !.error_message = inv[i].err, !.writes = @ + 1]]
  /\ SetInv(i, [inv[i] EXCEPT !.pc = "catch_scout"])
  /\ UNCHANGED <<scouts, keyStatus, emails, now, env>>

\* lines 826-845, then serve lines 105-115: failure bookkeeping, answer 200
FailureUpdate(row, snap_cf) ==
  LET newFailureCount == snap_cf + 1
      shouldDisable == newFailureCount >= DisableAfter
  IN [row EXCEPT !.last_run_at = now,
                 !.consecutive_failures = newFailureCount,
                 !.is_active = IF shouldDisable THEN FALSE ELSE @]

CatchUpdateScout_Rethrows(i) ==
  /\ inv[i].pc = "catch_scout"
  /\ scouts' = [scouts EXCEPT ![inv[i].sid] = FailureUpdate(@, inv[i].snap_cf)]
  /\ SetInv(i, [inv[i] EXCEPT !.pc = "done", !.resp = 500])
  /\ UNCHANGED <<executions, steps, keyStatus, emails, now, env>>
CatchUpdateScout(i) ==
  /\ inv[i].pc = "catch_scout"
  /\ scouts' = [scouts EXCEPT ![inv[i].sid] = FailureUpdate(@, inv[i].snap_cf)]
  /\ SetInv(i, [inv[i] EXCEPT !.pc = "done", !.resp = 200])
  /\ UNCHANGED <<executions, steps, keyStatus, emails, now, env>>

\* ------------------------------------------------------------ environment
\* The host ends an invocation between two awaits (crash, wall-clock ceiling)
Crash(i) ==
  /\ inv[i].pc \notin {"idle", "off", "done"}
  /\ env.events > 0
  /\ env' = [env EXCEPT !.events = @ - 1]
  /\ SetInv(i, IdleInv)
  /\ UNCHANGED <<scouts, executions, steps, keyStatus, emails, now>>

\* scout-settings-modal.tsx, handleActiveToggle (a toggle that writes the
\* value already stored changes nothing and is left out)
handleActiveToggle(s, checked) ==
  /\ env.events > 0
  /\ checked # scouts[s].is_active
  /\ env' = [env EXCEPT !.events = @ - 1]
  /\ scouts' = [scouts EXCEPT ![s].is_active = checked]
  /\ UNCHANGED <<executions, steps, keyStatus, emails, inv, now>>

\* The configuration chat's tool update_scout_config: `.update(params)` with
\* the parameters the input schema admits (title, goal, description,
\* location, search_queries, frequency; a zod object drops every other key).
\* The frequency is one of the enum (hourly in part_000, daily in route.ts),
\* or absent; complete is whether the required fields are all set after the
\* update (an empty title or an empty list of queries unsets one).
ConfigFrequencies == {"hourly", "daily", "every_3_days", "weekly"}
ConfigParams == [frequency : ConfigFrequencies \cup {"absent"}, complete : BOOLEAN]

update_scout_config_Activates(s, params) ==
  /\ env.events > 0
  /\ env' = [env EXCEPT !.events = @ - 1]
  /\ scouts' = [scouts EXCEPT ![s] =
        [@ EXCEPT !.frequency = IF params.frequency = "absent" THEN @
                                ELSE params.frequency,
                  !.complete = params.complete,
                  !.is_active = params.complete]]
  /\ UNCHANGED <<executions, steps, keyStatus, emails, inv, now>>
update_scout_config(s, params) ==
  /\ env.events > 0
  /\ env' = [env EXCEPT !.events = @ - 1]
  /\ scouts' = [scouts EXCEPT ![s] =
        [@ EXCEPT !.frequency = IF params.frequency = "absent" THEN @
                                ELSE params.frequency,
                  !.complete = params.complete]]
  /\ UNCHANGED <<executions, steps, keyStatus, emails, inv, now>>

\* Dispatcher (dispatch_due_scouts, every minute).  Times are in hours.
Frequencies == {"daily", "every_3_days", "weekly"}

Period(frequency) ==
  CASE frequency = "hourly" -> 1
    [] frequency = "daily" -> 24
    [] frequency = "every_3_days" -> 72
    [] frequency = "weekly" -> 168

IsDue_IgnoresComplete(s) ==
  /\ scouts[s].is_active
  /\ \/ scouts[s].last_run_at = 0
     \/ scouts[s].last_run_at + Period(scouts[s].frequency) <= now
IsDue_NeverRunNotDue(s) ==
  /\ scouts[s].is_active
  /\ scouts[s].complete
  /\ scouts[s].last_run_at # 0
  /\ scouts[s].last_run_at + Period(scouts[s].frequency) <= now
IsDue(s) ==
  /\ scouts[s].is_active
  /\ scouts[s].complete
  /\ \/ scouts[s].last_run_at = 0
     \/ scouts[s].last_run_at + Period(scouts[s].frequency) <= now

listDueScouts == {s \in Scouts : IsDue(s)}

\* One firing of the cron job: one request per due scout
dispatch_due_scouts ==
  /\ env.dispatches > 0
  /\ env' = [env EXCEPT !.dispatches = @ - 1,
                        !.dispatched = [s \in Scouts |->
                           IF s \in listDueScouts THEN @[s] + 1 ELSE @[s]]]
  /\ UNCHANGED <<scouts, executions, steps, keyStatus, emails, inv, now>>

\* Reaper (cleanup_scout_executions, every 5 minutes): running rows older
\* than the threshold become failed with reason stale
StaleAfter == 2
ReapStaleRunning_AllRunning ==
  /\ \E e \in ExecIds : executions[e].status = "running"
  /\ executions' =
       [e \in ExecIds |->
          IF executions[e].status = "running"
            THEN [executions[e] EXCEPT !.status = "failed", !.completed_at = now,
                                       !.error_message = "stale", !.writes = @ + 1]
            ELSE executions[e]]
  /\ UNCHANGED <<scouts, steps, keyStatus, emails, inv, now, env>>
ReapStaleRunning ==
  /\ \E e \in ExecIds : executions[e].status = "running"
                        /\ now - executions[e].created_at >= StaleAfter
  /\ executions' =
       [e \in ExecIds |->
          IF executions[e].status = "running" /\ now - executions[e].created_at >= StaleAfter
            THEN [executions[e] EXCEPT !.status = "failed", !.completed_at = now,
                                       !.error_message = "stale", !.writes = @ + 1]
            ELSE executions[e]]
  /\ UNCHANGED <<scouts, steps, keyStatus, emails, inv, now, env>>

Tick ==
  /\ now < MaxTime
  /\ now' = now + 1
  /\ UNCHANGED <<scouts, executions, steps, keyStatus, emails, inv, env>>

\* ---------------------------------------------------------- specification
InitStore ==
  /\ scouts \in
       { [s \in Scouts |->
            [ is_active |-> TRUE, complete |-> (s = 1), last_run_at |-> 0,
              frequency |-> "daily",
              consecutive_failures |-> IF s = 1 THEN cf ELSE 0 ]] : cf \in {0, 2} }
  /\ executions = <<>>
  /\ steps = <<>>
  /\ emails = <<>>
  /\ keyStatus = [u \in Users |-> "active"]
  /\ now = 1

EnvOf(invocations, events, embeddings, callKinds, toolResults) ==
  [ invocations |-> invocations, events |-> events, embeddings |-> embeddings,
    callKinds |-> callKinds, toolResults |-> toolResults, summaries |-> Summaries,
    dispatches |-> 0, dispatched |-> [s \in Scouts |-> 0] ]

AllSlots == [i \in Inv |-> IdleInv]
OneSlot == [i \in Inv |-> IF i = 1 THEN IdleInv ELSE [IdleInv EXCEPT !.pc = "off"]]

\* The executor: serve and executeScoutAgent
NextExec ==
  \/ \E i \in Inv : CheckRunning(i)
  \/ \E i \in Inv : InsertExecution(i)
  \/ \E i \in Inv : GetKey(i)
  \/ \E i \in Inv : LoadRecent(i)
  \/ \E i \in Inv : ChatCompletion(i)
  \/ \E i \in Inv : ToolExec(i)
  \/ \E i \in Inv : GenerateSummary(i)
  \/ \E i \in Inv : MarkCompleted(i)
  \/ \E i \in Inv : SendEmail(i)
  \/ \E i \in Inv : UpdateScoutSuccess(i)
  \/ \E i \in Inv : CatchMarkFailed(i)
  \/ \E i \in Inv : CatchUpdateScout(i)

\* The executor, requested with any scoutId
NextRun ==
  \/ \E i \in Inv, s \in Scouts \cup {0} : Invoke(i, s)
  \/ NextExec

\* The executor, requested by the dispatcher
NextDispatch ==
  \/ dispatch_due_scouts
  \/ \E i \in Inv, s \in Scouts : DispatchedRequest(i, s)
  \/ NextExec

\* The executor with the exit of the loop at its iteration limit, which
\* needs maxLoops chat completions in one run
NextAgent ==
  \/ NextRun
  \/ \E i \in Inv : MaxLoopsWrite(i)

\* The executor, the host ending invocations, and the user
NextUser ==
  \/ \E i \in Inv : Crash(i)
  \/ \E s \in Scouts, checked \in BOOLEAN : handleActiveToggle(s, checked)

\* The clock and the reaper
NextClock ==
  \/ ReapStaleRunning
  \/ Tick

\* Spec: two requests A and B, which may run at once, with crashes and the
\* user's toggle; the clock stands still.
Init ==
  /\ InitStore
  /\ inv = AllSlots
  /\ env = EnvOf(Cardinality(Inv), ConcEvents, ConcEmbeddings, CallKinds, ToolResults)

Next == NextRun \/ NextUser

Spec == Init /\ [][Next]_vars

\* SpecClock: one invocation at a time, with crashes, the user's toggle,
\* the clock and the reaper.
InitClock ==
  /\ InitStore
  /\ inv = OneSlot
  /\ env = EnvOf(ClockInvocations, ClockEvents, ConcEmbeddings, CallKinds, ToolResults)

NextAll == NextRun \/ NextUser \/ NextClock

SpecClock == InitClock /\ [][NextAll]_vars

\* SpecLoop: one run of the agent with up to LoopToolCalls tool calls
InitLoop ==
  /\ InitStore
  /\ inv = OneSlot
  /\ env = EnvOf(1, LoopToolCalls, ConcEmbeddings, {"search"}, {"ok", "error"})

SpecLoop == InitLoop /\ [][NextAgent]_vars

\* SpecDedup: runs of the agent in sequence, over the embeddings
InitDedup ==
  /\ InitStore
  /\ inv = OneSlot
  /\ env = [EnvOf(DedupInvocations, DedupToolCalls, DedupEmbeddings, {"search"}, {"ok"})
              EXCEPT !.summaries = DedupSummaries]

SpecDedup == InitDedup /\ [][NextRun]_vars

\* SpecTools: one run of the agent with every kind of tool call and of tool
\* result
InitTools ==
  /\ InitStore
  /\ inv = OneSlot
  /\ env = EnvOf(1, ToolsToolCalls, ConcEmbeddings, CallKinds, ToolResults)

SpecTools == InitTools /\ [][NextRun]_vars

\* SpecFindings: three runs of the agent in sequence, so that a run has
\* several previous findings to be compared with
InitFindings ==
  /\ InitStore
  /\ inv = OneSlot
  /\ env = EnvOf(FindingsInvocations, FindingsToolCalls, FindingsEmbeddings,
                 {"search"}, {"ok"})

SpecFindings == InitFindings /\ [][NextRun]_vars

\* SpecDispatch: the dispatcher's cron job fires at one of DispatchTimes
\* over a scout of every state and an incomplete scout, and its requests
\* run one at a time
DispatchTimes == {25, 73, 169}
LastRuns == {0, 1, 2}

InitDispatch ==
  /\ scouts \in
       { [s \in Scouts |->
            [ is_active |-> IF s = 1 THEN a ELSE TRUE,
              complete |-> IF s = 1 THEN c ELSE FALSE,
              last_run_at |-> IF s = 1 THEN l ELSE 0,
              frequency |-> IF s = 1 THEN f ELSE "daily",
              consecutive_failures |-> 0 ]] :
           a \in BOOLEAN, c \in BOOLEAN, l \in LastRuns, f \in Frequencies }
  /\ executions = <<>>
  /\ steps = <<>>
  /\ emails = <<>>
  /\ keyStatus = [u \in Users |-> "active"]
  /\ now \in DispatchTimes
  /\ inv = OneSlot
  /\ env = [EnvOf(0, DispatchToolCalls, {[len |-> EmbeddingDim, v |-> <<1, 0>>]},
                  {"search"}, {"ok"})
              EXCEPT !.dispatches = DispatchRuns]

SpecDispatch == InitDispatch /\ [][NextDispatch]_vars

\* SpecLive: one run of the agent that the host does not end, with up to
\* LoopToolCalls tool calls, some of them with unparsable arguments.  The
\* agent is sequential code whose awaits return (the fetches have a 60 s
\* timeout), so the executor goes on while it has a step to take.
InitLive ==
  /\ InitStore
  /\ inv = OneSlot
  /\ env = EnvOf(1, LoopToolCalls, {[len |-> EmbeddingDim, v |-> <<1, 0>>]},
                 {"search", "bad_args"}, {"ok", "error"})

SpecLive == InitLive /\ [][NextAgent]_vars /\ WF_vars(NextAgent)

\* SpecReap: one invocation at a time, with crashes, the clock and the
\* reaper.  pg_cron runs cleanup-scouts every 5 minutes for ever: the clock
\* goes on, and the reaper runs when there is a stale row.
InitReap ==
  /\ InitStore
  /\ inv = OneSlot
  /\ env = EnvOf(ReapInvocations, ReapEvents, {[len |-> EmbeddingDim, v |-> <<1, 0>>]},
                 {"search"}, {"ok"})

NextReap ==
  \/ NextRun
  \/ \E i \in Inv : Crash(i)
  \/ NextClock

SpecReap == InitReap /\ [][NextReap]_vars /\ WF_vars(Tick) /\ WF_vars(ReapStaleRunning)

\* SpecSchedule: the dispatcher, its requests one at a time, crashes, the
\* clock and the reaper.  Times are in hours, so the period of the scout
\* does not elapse before the clock stops.
InitSchedule ==
  /\ InitStore
  /\ inv = OneSlot
  /\ env = [EnvOf(0, ReapEvents, {[len |-> EmbeddingDim, v |-> <<1, 0>>]},
                  {"search"}, {"ok"})
              EXCEPT !.dispatches = DispatchRuns]

NextSchedule ==
  \/ NextDispatch
  \/ \E i \in Inv : Crash(i)
  \/ NextClock

SpecSchedule == InitSchedule /\ [][NextSchedule]_vars

\* SpecConfig: one request, with crashes, the user's toggle, the
\* configuration chat, the clock and the reaper.
InitConfig ==
  /\ InitStore
  /\ inv = OneSlot
  /\ env = EnvOf(1, ConfigEvents, {[len |-> EmbeddingDim, v |-> <<1, 0>>]},
                 {"search"}, {"ok"})

NextConfig ==
  \/ NextAll
  \/ \E s \in Scouts, params \in ConfigParams : update_scout_config(s, params)

SpecConfig == InitConfig /\ [][NextConfig]_vars

\* SpecSweep: as many requests as there are scouts, one at a time, for two
\* complete scouts, with crashes, the clock and the reaper, so that the
\* reaper meets rows of every status and age
InitSweep ==
  /\ scouts = [s \in Scouts |->
                 [ is_active |-> TRUE, complete |-> TRUE, last_run_at |-> 0,
                   frequency |-> "daily", consecutive_failures |-> 0 ]]
  /\ executions = <<>>
  /\ steps = <<>>
  /\ emails = <<>>
  /\ keyStatus = [u \in Users |-> "active"]
  /\ now = 1
  /\ inv = OneSlot
  /\ env = EnvOf(Cardinality(Scouts), SweepEvents, {[len |-> EmbeddingDim, v |-> <<1, 0>>]},
                 {"search"}, {"ok"})

SpecSweep == InitSweep /\ [][NextReap]_vars

\* ================================================================= claims
StoreUnchanged == UNCHANGED <<scouts, executions, steps, keyStatus, emails>>

\* C1: for every scout, at most one execution of the scout has status
\* running, in every reachable state (also when two requests for the scout
\* start at the same time).
C1_AtMostOneRunning ==
  \A s \in Scouts : Cardinality(RunningOf(s)) <= 1

\* C2 as stated: a request for a scout that has a running execution when the
\* request arrives is answered 409.
C2_RunningMeans409 ==
  \A i \in Inv : (inv[i].pc = "done" /\ inv[i].hadRunning) => inv[i].resp = 409

\* C2 as amended: a request whose running-execution check finds a running
\* execution is answered 409 with the id of a running execution of the
\* scout, and the check is only ever left with 409 when there is one; a step
\* that answers 409 or 500 creates no execution row and no step and leaves
\* the scouts, the credential and the emails unchanged.
C2_ConflictLeavesStateUnchanged ==
  [][\A i \in Inv :
       /\ (inv[i].pc = "check_running" /\ inv'[i].pc \notin {"check_running", "idle"})
            => IF RunningOf(inv[i].sid) # {}
                 THEN /\ inv'[i].pc = "done"
                      /\ inv'[i].resp = 409
                      /\ inv'[i].runningExecutionId \in RunningOf(inv[i].sid)
                      /\ inv'[i].eid = 0
                      /\ StoreUnchanged
                 ELSE inv'[i].pc = "insert"
       /\ (inv[i].pc # "done" /\ inv'[i].pc = "done" /\ inv'[i].resp \in {409, 500})
            => (inv'[i].eid = 0 /\ StoreUnchanged)
    ]_vars

\* C2 witness: a request was answered 409 while the scout had a running
\* execution, which is still the running one
C2_Witness ==
  \E i \in Inv : /\ inv[i].pc = "done" /\ inv[i].resp = 409 /\ inv[i].hadRunning
                 /\ inv[i].runningExecutionId \in RunningOf(inv[i].sid)

\* C3: an execution that is completed or failed is never written again:
\* every step leaves every row whose status is not running as it is (the
\* final message, the iteration limit and the error handler included)
C3_TerminalRowImmutable ==
  [][\A e \in ExecIds : executions[e].status # "running" => executions'[e] = executions[e]]_vars

\* C4: in every reachable state a scout with consecutive_failures >= 3 has
\* is_active = false (after executor runs and the settings-modal toggle)
C4_ThreeFailuresInactive ==
  \A s \in Scouts : scouts[s].consecutive_failures >= DisableAfter => ~scouts[s].is_active

\* C5: the failure bookkeeping of a run that ended its execution failed
\* raises the stored consecutive_failures of the scout by exactly one and
\* sets last_run_at
C5_FailureCountsOnce ==
  [][\A i \in Inv :
       (inv[i].pc = "catch_scout" /\ inv'[i].pc = "done")
         => /\ scouts'[inv[i].sid].consecutive_failures
                 = scouts[inv[i].sid].consecutive_failures + 1
            /\ scouts'[inv[i].sid].last_run_at = now
    ]_vars

\* C6: a run whose execution is completed (by the final message, parsed or
\* coerced, or by the iteration limit) does not enter the error handler, and
\* it ends by setting the scout's consecutive_failures to 0 and last_run_at
\* to the time of the step, leaving is_active as it is
C6_CompletedResetsFailures ==
  [][\A i \in Inv :
       (inv[i].eid # 0 /\ inv[i].pc # "done" /\ executions[inv[i].eid].status = "completed")
         => /\ inv'[i].pc \in {"email", "max_loops_write", "update_scout", "done", "idle"}
            /\ inv'[i].pc = "done"
                 => /\ scouts'[inv[i].sid].consecutive_failures = 0
                    /\ scouts'[inv[i].sid].last_run_at = now
                    /\ scouts'[inv[i].sid].is_active = scouts[inv[i].sid].is_active
    ]_vars

\* C6 witness: a run that started with two failures on the scout ended at
\* the iteration limit with the count reset
C6_Witness ==
  \E i \in Inv :
    /\ inv[i].pc = "done" /\ inv[i].eid # 0 /\ inv[i].snap_cf = 2
    /\ executions[inv[i].eid].status = "completed"
    /\ executions[inv[i].eid].results_summary.taskStatus = "partial"
    /\ scouts[inv[i].sid].consecutive_failures = 0
    /\ scouts[inv[i].sid].last_run_at = now
    /\ scouts[inv[i].sid].is_active

\* C7: every step that sends a success email for an execution sends the
\* first and only one, for a completed execution whose structured result has
\* taskCompleted = true and carries no duplicate mark
C7_EmailOnlyForNewCompletedResult ==
  [][\A e \in ExecIds :
       emails'[e] # emails[e]
         => /\ emails[e] = 0 /\ emails'[e] = 1
            /\ executions[e].status = "completed"
            /\ executions[e].results_summary.taskCompleted
            /\ executions[e].results_summary.dupOf = 0
    ]_vars

\* C7 witness: one execution got its email, and a later one with
\* taskCompleted = true, marked duplicate of it, got none
C7_Witness ==
  \E e, d \in ExecIds :
    /\ emails[e] = 1
    /\ executions[d].status = "completed"
    /\ executions[d].results_summary.taskCompleted
    /\ executions[d].results_summary.dupOf = e
    /\ emails[d] = 0
    /\ \E i \in Inv : inv[i].pc = "done" /\ inv[i].eid = d

\* C8: a run that is past the email step, with an execution completed with
\* taskCompleted = true and no duplicate mark, has sent the success email
C8_CompletedNewResultIsEmailed ==
  \A i \in Inv :
    ( /\ inv[i].pc \in {"max_loops_write", "update_scout", "done"}
      /\ inv[i].eid # 0
      /\ executions[inv[i].eid].status = "completed"
      /\ executions[inv[i].eid].results_summary.taskCompleted
      /\ executions[inv[i].eid].results_summary.dupOf = 0 )
    => emails[inv[i].eid] = 1

\* C8 witness: the email was sent for a run whose summary generation failed
C8_Witness ==
  \E i \in Inv :
    /\ inv[i].pc = "done" /\ inv[i].eid # 0
    /\ executions[inv[i].eid].status = "completed"
    /\ executions[inv[i].eid].results_summary.taskCompleted
    /\ executions[inv[i].eid].summary_text = NoSummary
    /\ executions[inv[i].eid].summary_embedding = NoEmbedding
    /\ emails[inv[i].eid] = 1

\* Two back-to-back successful runs with identical model outputs: the first
\* two executions belong to the same scout, both are completed with
\* taskCompleted = true and the same task status, summary and embedding, and
\* the run of the second has ended
BackToBackIdentical ==
  /\ Len(executions) >= 2
  /\ \E i \in Inv : inv[i].pc = "done" /\ inv[i].eid = 2
  /\ executions[1].scout_id = executions[2].scout_id
  /\ \A e \in {1, 2} : /\ executions[e].status = "completed"
                       /\ executions[e].results_summary.taskCompleted
  /\ executions[1].results_summary.taskStatus = executions[2].results_summary.taskStatus
  /\ executions[1].summary_text = executions[2].summary_text
  /\ executions[1].summary_embedding = executions[2].summary_embedding

SecondMarkedDuplicate == executions[2].results_summary.dupOf = 1 /\ emails[2] = 0

\* C9 as stated: of two back-to-back successful runs with identical model
\* outputs the second is marked duplicate and sends no email
C9_IdenticalOutputsDuplicate == BackToBackIdentical => SecondMarkedDuplicate

\* C9 as amended: of two back-to-back successful runs with identical model
\* outputs, whose summary and embedding generation succeeded with a
\* 1536-dimensional embedding that is not the zero vector, the second is
\* marked duplicate and sends no email
C9_IdenticalEmbeddedOutputsDuplicate ==
  ( /\ BackToBackIdentical
    /\ executions[2].summary_text # NoSummary
    /\ executions[2].summary_embedding.len = EmbeddingDim
    /\ Dot(executions[2].summary_embedding.v, executions[2].summary_embedding.v) # 0 )
  => SecondMarkedDuplicate

\* C9 witness: the second of two identical embedded runs is marked duplicate
\* of the first, which got the only email
C9_Witness ==
  /\ BackToBackIdentical
  /\ executions[2].summary_embedding.len = EmbeddingDim
  /\ Dot(executions[2].summary_embedding.v, executions[2].summary_embedding.v) # 0
  /\ SecondMarkedDuplicate
  /\ emails[1] = 1

\* C10: a run that has got a tool error containing 402 issues no further
\* chat completion or tool call: it is in its error handler or has ended
C10_AbortsOn402 ==
  \A i \in Inv : inv[i].saw402 => inv[i].pc \in {"catch", "catch_scout", "done"}

\* C11: a step in which a run gets a tool error containing 402 leaves the
\* credential of the scout's user invalid and every scout of that user
\* inactive; and the only step that makes an inactive scout active is the
\* user's toggle (no step of an invocation does)
C11_PaymentRequiredDisablesAll ==
  [][/\ \A i \in Inv :
          (inv[i].pc = "tool_exec" /\ ~inv[i].saw402 /\ inv'[i].saw402)
            => /\ keyStatus'[Owner[inv[i].sid]] = "invalid"
               /\ \A s \in Scouts :
                    Owner[s] = Owner[inv[i].sid] => ~scouts'[s].is_active
     /\ (\E s \in Scouts : ~scouts[s].is_active /\ scouts'[s].is_active) => inv' = inv
    ]_vars

\* C11 witness: a run that got a 402 went on and ended with the success
\* bookkeeping, and both scouts of the user are still inactive
C11_Witness ==
  \E i \in Inv :
    /\ inv[i].saw402 /\ inv[i].pc = "done"
    /\ executions[inv[i].eid].status = "completed"
    /\ scouts[inv[i].sid].last_run_at = now
    /\ \A s \in Scouts : ~scouts[s].is_active
    /\ keyStatus[Owner[inv[i].sid]] = "invalid"

\* C12: a run that ended without a final message of the model and without
\* an abort (the model asked for tool calls in every iteration, the
\* consecutive-error cutoff was not hit) made exactly maxLoops chat
\* completions; its execution is completed with the partial iteration-limit
\* result, no email was sent and the scout's consecutive_failures is 0
C12_LimitWritesPartial ==
  \A i \in Inv :
    (inv[i].pc = "done" /\ inv[i].eid # 0 /\ inv[i].err = ""
       /\ inv[i].scoutResponse = NoResponse)
    => /\ inv[i].loopCount = maxLoops
       /\ executions[inv[i].eid].status = "completed"
       /\ executions[inv[i].eid].results_summary = incompleteSummary
       /\ emails[inv[i].eid] = 0
       /\ scouts[inv[i].sid].consecutive_failures = 0

\* C12 witness: seven iterations of one tool call each, some of them
\* failing, ended at the iteration limit
C12_Witness ==
  \E i \in Inv :
    /\ inv[i].pc = "done" /\ inv[i].err = "" /\ inv[i].scoutResponse = NoResponse
    /\ inv[i].loopCount = maxLoops
    /\ inv[i].consecutiveErrors = 2
    /\ Len(steps[inv[i].eid]) = maxLoops + 1
    /\ executions[inv[i].eid].results_summary.taskStatus = "partial"
    /\ emails[inv[i].eid] = 0

\* C13: a run that got a final message of the model (a message without tool
\* calls, in any iteration up to the last) and ended with its execution
\* completed has the parsed result of that message as the execution's
\* results_summary, not the synthetic iteration-limit result
C13_FinalMessageIsTheResult ==
  \A i \in Inv :
    (inv[i].pc = "done" /\ inv[i].eid # 0 /\ inv[i].scoutResponse # NoResponse
       /\ executions[inv[i].eid].status = "completed")
    => executions[inv[i].eid].results_summary = inv[i].scoutResponse

\* C14: a run for which the credential resolver returned no key ends its
\* execution failed with the key error before any chat completion or tool
\* call, sends no email, and its failure bookkeeping raises the scout's
\* stored consecutive_failures by one
C14_NoKeyAborts ==
  [][\A i \in Inv :
       (inv[i].pc = "catch_scout" /\ inv[i].err = "no_key" /\ inv'[i].pc = "done")
         => /\ inv[i].loopCount = 0 /\ inv[i].stepNumber = 0
            /\ steps[inv[i].eid] = <<>>
            /\ executions[inv[i].eid].status = "failed"
            /\ executions[inv[i].eid].error_message = "no_key"
            /\ emails[inv[i].eid] = 0
            /\ scouts'[inv[i].sid].consecutive_failures
                 = scouts[inv[i].sid].consecutive_failures + 1
    ]_vars

\* C15: a configuration error counts as a failure: the step that rejects a
\* request for an active scout with missing configuration fields, and the
\* failure bookkeeping of a run that found no credential, each raise the
\* scout's stored consecutive_failures by one
C15_ConfigurationErrorCounts ==
  [][\A i \in Inv :
       /\ ( /\ Free(i) /\ inv'[i] # inv[i]
            /\ inv'[i].pc = "done" /\ inv'[i].resp = 500
            /\ inv'[i].sid \in Scouts
            /\ scouts[inv'[i].sid].is_active /\ ~scouts[inv'[i].sid].complete )
          => scouts'[inv'[i].sid].consecutive_failures
               = scouts[inv'[i].sid].consecutive_failures + 1
       /\ (inv[i].pc = "catch_scout" /\ inv[i].err = "no_key" /\ inv'[i].pc = "done")
          => scouts'[inv[i].sid].consecutive_failures
               = scouts[inv[i].sid].consecutive_failures + 1
    ]_vars

\* C16: an invocation reaches its first chat completion only through the
\* entry checks, each of which held in the state in which it was made: the
\* scout exists, is active and complete when the request enters; no
\* execution of the scout is running when the running check passes; the
\* user's key is valid when the credential resolver passes.  A request for a
\* missing, inactive or incomplete scout is answered 500 and creates no
\* execution row.
C16_EntryPreconditions ==
  [][\A i \in Inv :
       LET a == inv[i]
           b == inv'[i]
       IN /\ a.pc # b.pc =>
               /\ b.pc = "check_running"
                    => /\ Free(i) /\ b.sid \in Scouts
                       /\ scouts[b.sid].is_active /\ scouts[b.sid].complete
               /\ b.pc = "insert" => (a.pc = "check_running" /\ RunningOf(a.sid) = {})
               /\ b.pc = "get_key" => a.pc = "insert"
               /\ b.pc = "load_recent"
                    => (a.pc = "get_key" /\ keyStatus[Owner[a.sid]] = "active")
               /\ b.pc = "chat" => a.pc \in {"load_recent", "tool_exec"}
               /\ b.pc = "tool_exec" => a.pc \in {"chat", "tool_exec"}
          /\ (Free(i) /\ a # b
                /\ (b.sid \notin Scouts \/ ~scouts[b.sid].is_active \/ ~scouts[b.sid].complete))
               => (b.pc = "done" /\ b.resp = 500 /\ b.eid = 0 /\ executions' = executions)
    ]_vars

\* C16 witness: one invocation is at a chat completion of its run, for a
\* scout that has been switched off since the entry checks, and a request
\* made after that was answered 500 without an execution row
C16_Witness ==
  \E i, j \in Inv :
    /\ inv[i].pc = "chat" /\ inv[i].eid # 0 /\ ~scouts[inv[i].sid].is_active
    /\ inv[j].pc = "done" /\ inv[j].resp = 500 /\ inv[j].sid = inv[i].sid
    /\ inv[j].eid = 0 /\ Len(executions) = 1

\* The cutoff messages, and whether the step of a tool call is marked failed
\* in the steps st (the call returned an error)
CutoffMessages ==
  {"too_many_errors_last_credits_exhausted", "too_many_errors_last_401",
   "too_many_errors_last_error"}
ToolStepFailed(st, e, n) ==
  \E k \in DOMAIN st[e] : st[e][k].step_number = n /\ st[e][k].status = "failed"

\* C17: every step that executes a tool call leaves consecutiveErrors as it
\* was when a scrape of a blacklisted URL returned an error, one higher when
\* any other call returned an error, and 0 when the call succeeded; it
\* throws the cutoff error exactly when the counter reaches
\* maxConsecutiveErrors, with the message that carries the last tool error;
\* and the error handler then writes the execution failed with that message
C17_ConsecutiveErrorAccounting ==
  [][\A i \in Inv :
       LET a == inv[i]
           b == inv'[i]
           failed == ToolStepFailed(steps', a.eid, a.stepNumber)
           blacklisted == a.call = "scrape_blacklisted"
           cutoff == b.pc = "catch" /\ b.err \in CutoffMessages
       IN /\ (a.pc = "tool_exec" /\ b # a /\ b.pc # "idle")
               => /\ (failed /\ blacklisted) => b.consecutiveErrors = a.consecutiveErrors
                  /\ (failed /\ ~blacklisted) => b.consecutiveErrors = a.consecutiveErrors + 1
                  /\ ~failed => b.consecutiveErrors = 0
                  /\ cutoff <=> (failed /\ ~blacklisted
                                   /\ b.consecutiveErrors = maxConsecutiveErrors)
                  /\ b.consecutiveErrors >= maxConsecutiveErrors => cutoff
                  /\ (cutoff /\ ~a.saw402 /\ b.saw402)
                       => b.err = "too_many_errors_last_credits_exhausted"
          /\ (a.pc = "catch" /\ b.pc = "catch_scout")
               => /\ executions'[a.eid].status = "failed"
                  /\ executions'[a.eid].error_message = a.err
    ]_vars

\* C17 witness: a run of four tool calls was aborted by the cutoff: all four
\* calls failed, one of them a scrape of a blacklisted URL that was not counted
C17_Witness ==
  \E i \in Inv :
    /\ inv[i].pc = "done" /\ inv[i].err \in CutoffMessages
    /\ inv[i].consecutiveErrors = maxConsecutiveErrors
    /\ inv[i].stepNumber = 5
    /\ \A n \in 2..5 : ToolStepFailed(steps, inv[i].eid, n)
    /\ executions[inv[i].eid].status = "failed"
    /\ executions[inv[i].eid].error_message = inv[i].err

\* C18: a run whose chat completion failed is in its error handler or has
\* ended (it issues no further chat completion or tool call) and has sent
\* no email; its error handler writes the execution failed with the error
\* of the chat completion, and then the failure bookkeeping runs: it stores
\* last_run_at and the failure count read at entry plus one, and switches
\* the scout off when that count reaches 3
C18_ChatFailureIsFatal ==
  [][\A i \in Inv :
       LET a == inv[i]
           b == inv'[i]
       IN /\ b.err = "openai_error"
               => (b.pc \in {"catch", "catch_scout", "done"} /\ emails'[b.eid] = 0)
          /\ (a.err = "openai_error" /\ a.pc = "catch" /\ b # a /\ b.pc # "idle")
               => /\ b.pc = "catch_scout"
                  /\ executions'[a.eid].status = "failed"
                  /\ executions'[a.eid].error_message = "openai_error"
          /\ (a.err = "openai_error" /\ a.pc = "catch_scout" /\ b # a /\ b.pc # "idle")
               => /\ b.pc = "done"
                  /\ scouts'[a.sid].last_run_at = now
                  /\ scouts'[a.sid].consecutive_failures = a.snap_cf + 1
                  /\ a.snap_cf + 1 >= DisableAfter => ~scouts'[a.sid].is_active
    ]_vars

\* C18 witness: the second chat completion of a run failed, after a tool
\* call; the run ended with its execution failed and the scout switched off
C18_Witness ==
  \E i \in Inv :
    /\ inv[i].pc = "done" /\ inv[i].err = "openai_error"
    /\ inv[i].loopCount = 2 /\ inv[i].stepNumber = 2
    /\ executions[inv[i].eid].status = "failed"
    /\ executions[inv[i].eid].error_message = "openai_error"
    /\ emails[inv[i].eid] = 0
    /\ scouts[inv[i].sid].consecutive_failures = DisableAfter
    /\ ~scouts[inv[i].sid].is_active

\* C19: a run whose final message could not be parsed as JSON has the
\* result {taskCompleted: false, taskStatus: "insufficient_data", raw
\* content}; it does not enter the error handler, generates no summary and
\* no embedding and sends no email; its execution is written completed
\* without summary and embedding, and at its end the scout's
\* consecutive_failures is 0 and last_run_at is set
C19_ParseFailureCoerced ==
  \A i \in Inv :
    inv[i].scoutResponse.src = "raw"
    => /\ ~inv[i].scoutResponse.taskCompleted
       /\ inv[i].scoutResponse.taskStatus = "insufficient_data"
       /\ inv[i].pc \in {"mark_completed", "max_loops_write", "update_scout", "done"}
       /\ inv[i].err = ""
       /\ inv[i].summaryText = NoSummary /\ inv[i].summaryEmbedding = NoEmbedding
       /\ emails[inv[i].eid] = 0
       /\ inv[i].pc # "mark_completed"
            => /\ executions[inv[i].eid].status = "completed"
               /\ executions[inv[i].eid].summary_text = NoSummary
               /\ executions[inv[i].eid].summary_embedding = NoEmbedding
       /\ inv[i].pc = "done"
            => /\ scouts[inv[i].sid].consecutive_failures = 0
               /\ scouts[inv[i].sid].last_run_at = now

\* C19 witness: a run for a scout with two failures ended after a final
\* message that was not JSON, in its third iteration
C19_Witness ==
  \E i \in Inv :
    /\ inv[i].pc = "done" /\ inv[i].scoutResponse.src = "raw"
    /\ inv[i].loopCount = 3 /\ inv[i].snap_cf = 2
    /\ executions[inv[i].eid].status = "completed"
    /\ executions[inv[i].eid].results_summary = inv[i].scoutResponse
    /\ emails[inv[i].eid] = 0
    /\ scouts[inv[i].sid].consecutive_failures = 0

\* C20: a run with taskCompleted = true whose summary call or embedding
\* call failed (it is past the summary stage without an embedding) does not
\* enter the error handler; deduplication is skipped (the run is not marked
\* duplicate, whatever the previous executions are); its execution is
\* written completed with a null summary_embedding, and at its end the
\* scout's consecutive_failures is 0
C20_SummaryFailureNotFatal ==
  \A i \in Inv :
    ( /\ inv[i].scoutResponse.taskCompleted
      /\ inv[i].scoutResponse.src = "parsed"
      /\ inv[i].summaryEmbedding = NoEmbedding
      /\ inv[i].pc # "summary" )
    => /\ inv[i].pc \in {"mark_completed", "email", "max_loops_write", "update_scout", "done"}
       /\ inv[i].err = ""
       /\ ~inv[i].isDuplicate /\ inv[i].scoutResponse.dupOf = 0
       /\ inv[i].pc # "mark_completed"
            => /\ executions[inv[i].eid].status = "completed"
               /\ executions[inv[i].eid].summary_embedding = NoEmbedding
               /\ executions[inv[i].eid].summary_text = inv[i].summaryText
       /\ inv[i].pc = "done"
            => /\ scouts[inv[i].sid].consecutive_failures = 0
               /\ scouts[inv[i].sid].last_run_at = now

\* C20 witness: the embedding call of a second run failed after its summary
\* call succeeded; there was a previous execution to compare with, and the
\* run ended completed, not duplicate, with its email sent
C20_Witness ==
  \E i \in Inv :
    /\ inv[i].pc = "done" /\ inv[i].scoutResponse.taskCompleted
    /\ inv[i].summaryText # NoSummary /\ inv[i].summaryEmbedding = NoEmbedding
    /\ Len(inv[i].similar) > 0
    /\ executions[inv[i].eid].status = "completed"
    /\ executions[inv[i].eid].summary_embedding = NoEmbedding
    /\ emails[inv[i].eid] = 1
    /\ scouts[inv[i].sid].consecutive_failures = 0

\* C21: a run whose success-email send failed does not enter the error
\* handler and its execution stays completed; the step that ends the run
\* sets the scout's consecutive_failures to 0 and last_run_at to the time
\* of the step
C21_EmailFailureNotFatal ==
  [][\A i \in Inv :
       LET a == inv[i]
           b == inv'[i]
       IN /\ b.emailError
               => /\ b.pc \in {"max_loops_write", "update_scout", "done"}
                  /\ b.err = ""
                  /\ executions'[b.eid].status = "completed"
          /\ (a.emailError /\ a.pc # "done" /\ b.pc = "done")
               => /\ b.resp = 200
                  /\ scouts'[a.sid].consecutive_failures = 0
                  /\ scouts'[a.sid].last_run_at = now
    ]_vars

\* C21 witness: a run for a scout with two failures ended after its email
\* send failed: the execution is completed and the failures are reset
C21_Witness ==
  \E i \in Inv :
    /\ inv[i].pc = "done" /\ inv[i].emailError /\ inv[i].snap_cf = 2
    /\ emails[inv[i].eid] = 1
    /\ executions[inv[i].eid].status = "completed"
    /\ scouts[inv[i].sid].consecutive_failures = 0
    /\ scouts[inv[i].sid].last_run_at = now

\* C22: every execution with status completed has a summary_text of at
\* most 150 characters (when not null) and a summary_embedding that is null
\* or has exactly 1536 elements
C22_SummaryShape ==
  \A e \in ExecIds :
    executions[e].status = "completed"
    => /\ executions[e].summary_text.length <= SummaryMaxLength
       /\ \/ executions[e].summary_embedding = NoEmbedding
          \/ executions[e].summary_embedding.len = EmbeddingDim

\* C23: in every state, the persisted steps of every execution carry, in
\* the order of their creation, the step numbers 1, 2, ..., n: no gap, no
\* repeat, increasing
C23_StepNumbersContiguous ==
  \A e \in ExecIds : \A k \in DOMAIN steps[e] : steps[e][k].step_number = k

\* C23 witness: a run was aborted by a tool call with unparsable arguments
\* after its step counter was raised and before the step was created: the
\* counter is 4 and the persisted steps are 1, 2, 3
C23_Witness ==
  \E i \in Inv :
    /\ inv[i].pc = "done" /\ inv[i].err = "bad_args"
    /\ inv[i].stepNumber = 4
    /\ Len(steps[inv[i].eid]) = 3
    /\ \A k \in 1..3 : steps[inv[i].eid][k].step_number = k

\* C24: an execution that the executor has written completed or failed has
\* no step in status running
C24_NoRunningStepAfterEnd ==
  \A e \in ExecIds :
    (executions[e].status \in {"completed", "failed"} /\ executions[e].error_message # "stale")
    => \A k \in DOMAIN steps[e] : steps[e][k].status # "running"

\* The findings a new embedding is compared with: the completed executions
\* of the scout that have a summary and an embedding of 1536 elements
ValidFindings(s) ==
  {e \in ExecIds : /\ executions[e].scout_id = s
                   /\ executions[e].status = "completed"
                   /\ executions[e].summary_text # NoSummary
                   /\ executions[e].summary_embedding.len = EmbeddingDim}

\* The cosine similarity of the embedding cur and the embedding of the
\* finding e is defined (equal lengths) and at least num / den
SimilarTo(cur, e, num, den) ==
  /\ executions[e].summary_embedding.len = cur.len
  /\ SimilarityAtLeast(cur.v, executions[e].summary_embedding.v, num, den)

\* The maximum similarity of cur to the findings F is at least num / den
MaxSimilarityAtLeast(cur, F, num, den) == \E e \in F : SimilarTo(cur, e, num, den)

\* C25: the step that decides on the duplicate marks the run duplicate if
\* and only if the run has taskCompleted = true, a non-null embedding, and
\* the maximum cosine similarity of that embedding to the valid findings of
\* the scout is at least 0.85; the mark is what results_summary carries
C25_DuplicateIffMaxSimilarity ==
  [][\A i \in Inv :
       LET a == inv[i]
           b == inv'[i]
       IN (a.pc = "mark_completed" /\ b.pc # "mark_completed" /\ b.pc # "idle")
            => /\ b.isDuplicate
                    <=> /\ a.scoutResponse.taskCompleted
                        /\ a.summaryEmbedding # NoEmbedding
                        /\ MaxSimilarityAtLeast(a.summaryEmbedding, ValidFindings(a.sid),
                                                ThresholdNum, ThresholdDen)
               /\ b.isDuplicate <=> executions'[a.eid].results_summary.dupOf # 0
    ]_vars

\* C25 witness: the third run is marked duplicate because of the older of
\* two findings, the newer one being dissimilar
C25_Witness ==
  /\ Len(executions) = 3
  /\ \A e \in 1..3 : executions[e].status = "completed"
  /\ executions[1].summary_embedding = [len |-> EmbeddingDim, v |-> <<1, 0>>]
  /\ executions[2].summary_embedding = [len |-> EmbeddingDim, v |-> <<0, 1>>]
  /\ executions[3].summary_embedding = [len |-> EmbeddingDim, v |-> <<3, 1>>]
  /\ executions[2].results_summary.dupOf = 0
  /\ executions[3].results_summary.dupOf = 1
  /\ emails[3] = 0

\* The finding e is an argmax of the similarity of cur over the findings F:
\* no finding of F is more similar to cur than e (a / |e| >= b / |f| for
\* the dot products a, b of cur with e, f, compared in integers)
MoreSimilar(cur, f, e) ==
  LET vf == executions[f].summary_embedding.v
      ve == executions[e].summary_embedding.v
      df == Dot(cur.v, vf)
      de == Dot(cur.v, ve)
  IN \/ de <= 0 /\ df > 0
     \/ de > 0 /\ df > 0 /\ df * df * Dot(ve, ve) > de * de * Dot(vf, vf)
     \/ de < 0 /\ df < 0 /\ df * df * Dot(ve, ve) < de * de * Dot(vf, vf)
     \/ de < 0 /\ df = 0

\* C26: the step that marks a run duplicate marks it a duplicate of an
\* argmax finding: no valid finding of the scout is more similar to the new
\* embedding than the one the mark names
C26_DuplicateOfArgmax ==
  [][\A i \in Inv :
       LET a == inv[i]
           b == inv'[i]
       IN (a.pc = "mark_completed" /\ b.pc # "mark_completed" /\ b.isDuplicate)
            => /\ b.scoutResponse.dupOf \in ValidFindings(a.sid)
               /\ \A f \in ValidFindings(a.sid) :
                    ~MoreSimilar(a.summaryEmbedding, f, b.scoutResponse.dupOf)
    ]_vars

\* Thresholds num / den in (0, 1], as pairs <<num, den>>
Thresholds == {<<1, 2>>, <<17, 20>>, <<19, 20>>, <<1, 1>>}

\* C27: for the embedding and the findings of a run that is about to decide
\* on the duplicate, and thresholds t' <= t: if the run is marked duplicate
\* at the threshold t, it is marked duplicate at the threshold t'
C27_ThresholdMonotone ==
  \A i \in Inv :
    inv[i].pc = "mark_completed"
    => \A t, u \in Thresholds :
         (u[1] * t[2] <= t[1] * u[2] /\ DuplicateAt(inv[i], t[1], t[2]) # 0)
         => DuplicateAt(inv[i], u[1], u[2]) # 0

\* C27 witness: a run is about to decide with two findings loaded; it is a
\* duplicate at the thresholds 0.5 and 0.85 and not at 0.95
C27_Witness ==
  \E i \in Inv :
    /\ inv[i].pc = "mark_completed" /\ Len(inv[i].similar) = 2
    /\ DuplicateAt(inv[i], 1, 2) # 0
    /\ DuplicateAt(inv[i], 17, 20) # 0
    /\ DuplicateAt(inv[i], 19, 20) = 0


Abandoned(e) ==
  /\ e \in ExecIds
  /\ executions[e].status = "running"
  /\ \A i \in Inv : inv[i].eid # e
  /\ executions[e].created_at + StaleAfter <= MaxTime

ReapedStale(e) ==
  /\ e \in ExecIds
  /\ executions[e].status = "failed"
  /\ executions[e].error_message = "stale"

\* C29: an execution that a crashed executor left in status running is
\* eventually marked failed with reason stale by the reaper; and a request
\* for a scout that has a reaped execution and no execution in status
\* running is not answered 409 by the running check but goes on to create an
\* execution
C29_StaleRunReaped ==
  /\ \A e \in 1..ReapInvocations : Abandoned(e) ~> ReapedStale(e)
  /\ [][ \A i \in Inv :
           ( /\ inv[i].pc = "check_running" /\ inv'[i].pc # "check_running"
             /\ inv'[i].pc # "idle"
             /\ \E e \in ExecIds : executions[e].scout_id = inv[i].sid /\ ReapedStale(e)
             /\ \A e \in ExecIds : executions[e].scout_id = inv[i].sid
                                   => executions[e].status # "running" )
           => inv'[i].resp # 409 /\ inv'[i].pc = "insert" ]_vars

\* C29 witness: the execution 1 of a crashed invocation was reaped, and a
\* later request for the same scout has created the execution 2
C29_Witness ==
  /\ Len(executions) = 2
  /\ ReapedStale(1)
  /\ executions[1].writes = 1
  /\ executions[2].scout_id = executions[1].scout_id
  /\ executions[2].created_at >= executions[1].completed_at
  /\ inv[1].eid = 2


\* The invocation i has created its execution row and the terminal write
\* of the row has not been made
BetweenCreationAndTerminalWrite(i) ==
  /\ inv[i].eid # 0
  /\ inv[i].pc \notin {"idle", "off", "done"}
  /\ executions[inv[i].eid].writes = 0

\* C30: no two invocations for the same scout are between the creation of
\* their execution row and their terminal write at the same time, and of
\* two executions of a scout the earlier one is terminal when the later one
\* is created
C30_StrictlySerial ==
  /\ \A i, j \in Inv :
       (i # j /\ BetweenCreationAndTerminalWrite(i) /\ BetweenCreationAndTerminalWrite(j))
       => inv[i].sid # inv[j].sid
  /\ \A e, f \in ExecIds :
       (e < f /\ executions[e].scout_id = executions[f].scout_id)
       => /\ executions[e].status # "running"
          /\ executions[e].completed_at <= executions[f].created_at


Terminal(e) == e \in ExecIds /\ executions[e].status \in {"completed", "failed"}

\* C31: an execution created by an executor that the host does not end
\* eventually has status completed or failed, and a run issues at most
\* maxLoops = 7 chat completions
C31_RunTerminates ==
  /\ (1 \in ExecIds) ~> Terminal(1)
  /\ [](\A i \in Inv : inv[i].loopCount <= maxLoops)

\* C31 witness: the run whose seventh chat completion asked for a tool call
\* with unparsable arguments has ended, with the execution failed
C31_Witness ==
  /\ inv[1].pc = "done" /\ inv[1].loopCount = maxLoops
  /\ inv[1].err = "bad_args"
  /\ Terminal(1) /\ executions[1].status = "failed"


\* The conversation msgs is well formed: every tool call of every assistant
\* message is answered by the tool message of its id, the answers follow
\* the assistant message in the order of the calls, and every tool message
\* answers a call of an assistant message, and only one does
WellFormedConversation(msgs) ==
  /\ \A p \in 1..Len(msgs) :
       msgs[p].role = "assistant"
       => \A k \in 1..msgs[p].calls :
            /\ p + k <= Len(msgs)
            /\ msgs[p + k] = [role |-> "tool", id |-> msgs[p].id, calls |-> k]
  /\ \A q \in 1..Len(msgs) :
       msgs[q].role = "tool"
       => /\ msgs[q].calls >= 1 /\ q - msgs[q].calls >= 1
          /\ LET a == msgs[q - msgs[q].calls]
             IN a.role = "assistant" /\ a.id = msgs[q].id /\ msgs[q].calls <= a.calls
  /\ \A p, q \in 1..Len(msgs) :
       (p # q /\ msgs[p].role = msgs[q].role /\ msgs[p].role \in {"assistant", "tool"})
       => <<msgs[p].id, msgs[p].calls>> # <<msgs[q].id, msgs[q].calls>>
          /\ (msgs[p].role = "assistant" => msgs[p].id # msgs[q].id)

\* C32: the conversation sent with a chat-completion request is well formed
C32_ConversationWellFormed ==
  \A i \in Inv :
    inv[i].pc = "chat"
    => WellFormedConversation(
         Reminder([inv[i] EXCEPT !.loopCount = @ + 1]).conversationMessages)

\* C32 witness: the third request of a run is about to be made, after a
\* message with two tool calls and a message with one, each call answered
C32_Witness ==
  \E i \in Inv :
    /\ inv[i].pc = "chat" /\ inv[i].loopCount = 2
    /\ \E p \in 1..Len(inv[i].conversationMessages) :
         /\ inv[i].conversationMessages[p].role = "assistant"
         /\ inv[i].conversationMessages[p].calls = 2
    /\ Len(Reminder([inv[i] EXCEPT !.loopCount = @ + 1]).conversationMessages) = 8


\* A step of the invocation i that executes a tool call whose adapter
\* returned the error of a transport failure; it finalizes the step row
\* failed and has no effect on the key and the scouts
TransportFailureStep(i) ==
  /\ inv[i].pc = "tool_exec" /\ inv'[i] # inv[i] /\ inv'[i].pc # "idle"
  /\ inv'[i].toolResult = "error"
  /\ ToolStepFailed(steps', inv[i].eid, inv[i].stepNumber)
  /\ keyStatus' = keyStatus /\ scouts' = scouts

\* The run goes on after the tool call: to the next call of the message, to
\* the next chat completion with the error as the tool message, to the end
\* of the loop at its limit, or to the catch for the next call's arguments
RunContinues(i) ==
  /\ inv'[i].pc \in {"tool_exec", "chat", "max_loops_write", "catch"}
  /\ inv'[i].pc = "catch" => inv'[i].err = "bad_args"
  /\ inv'[i].pc \in {"tool_exec", "chat"}
       => /\ Len(inv'[i].conversationMessages) = Len(inv[i].conversationMessages) + 1
          /\ inv'[i].conversationMessages[Len(inv'[i].conversationMessages)].role = "tool"

\* C33 as stated: every transport failure of a tool call increases
\* consecutiveErrors by one, and the run continues unless the counter
\* reached three
C33_TransportFailureCounted ==
  [][\A i \in Inv :
       TransportFailureStep(i)
       => /\ inv'[i].consecutiveErrors = inv[i].consecutiveErrors + 1
          /\ IF inv'[i].consecutiveErrors >= maxConsecutiveErrors
               THEN inv'[i].pc = "catch" /\ inv'[i].err \in CutoffMessages
               ELSE RunContinues(i)
    ]_vars

\* C33 amended: a transport failure of a tool call finalizes the step
\* failed and, unless the call is a scrape of a blacklisted URL, increases
\* consecutiveErrors by one; the run continues with the error as the tool
\* message unless the counter reached three, which throws the cutoff error.
\* The failure of a scrape of a blacklisted URL leaves the counter as it was
\* and the run continues.
C33_TransportFailureCountedUnlessBlacklisted ==
  [][\A i \in Inv :
       TransportFailureStep(i)
       => IF inv[i].call = "scrape_blacklisted"
            THEN /\ inv'[i].consecutiveErrors = inv[i].consecutiveErrors
                 /\ RunContinues(i)
            ELSE /\ inv'[i].consecutiveErrors = inv[i].consecutiveErrors + 1
                 /\ IF inv'[i].consecutiveErrors >= maxConsecutiveErrors
                      THEN inv'[i].pc = "catch" /\ inv'[i].err \in CutoffMessages
                      ELSE RunContinues(i)
    ]_vars

\* C33 witness: the second search of a run failed after a failed first one,
\* the key is still active, both steps are failed, and the run is about to
\* send the error to the model
C33_Witness ==
  \E i \in Inv :
    /\ inv[i].pc = "chat" /\ inv[i].consecutiveErrors = 2
    /\ keyStatus[Owner[inv[i].sid]] = "active"
    /\ ToolStepFailed(steps, inv[i].eid, 2) /\ ToolStepFailed(steps, inv[i].eid, 3)
    /\ inv[i].conversationMessages[Len(inv[i].conversationMessages)].role = "tool"


\* A step of the invocation i that executes a tool call whose adapter
\* returned an error containing 401
Error401Step(i) ==
  /\ inv[i].pc = "tool_exec" /\ inv'[i] # inv[i] /\ inv'[i].pc # "idle"
  /\ inv'[i].toolResult = "error401"

\* What a 401 does besides the counting: the key of the scout's user is
\* marked invalid, no scout is changed, the step is finalized failed
Error401Effects(i) ==
  /\ keyStatus' = [keyStatus EXCEPT ![Owner[inv[i].sid]] = "invalid"]
  /\ scouts' = scouts
  /\ executions' = executions
  /\ ToolStepFailed(steps', inv[i].eid, inv[i].stepNumber)

\* C34 as stated: a tool error containing 401 marks the key invalid,
\* deactivates no scout, counts once against consecutiveErrors and aborts
\* the run only as the third consecutive counted error
C34_Error401Transient ==
  [][\A i \in Inv :
       Error401Step(i)
       => /\ Error401Effects(i)
          /\ inv'[i].consecutiveErrors = inv[i].consecutiveErrors + 1
          /\ IF inv'[i].consecutiveErrors >= maxConsecutiveErrors
               THEN inv'[i].pc = "catch" /\ inv'[i].err = "too_many_errors_last_401"
               ELSE RunContinues(i)
    ]_vars

\* C34 amended: as stated, but the 401 of a scrape of a blacklisted URL is
\* not counted against consecutiveErrors (it still marks the key invalid)
C34_Error401TransientUnlessBlacklisted ==
  [][\A i \in Inv :
       Error401Step(i)
       => /\ Error401Effects(i)
          /\ IF inv[i].call = "scrape_blacklisted"
               THEN /\ inv'[i].consecutiveErrors = inv[i].consecutiveErrors
                    /\ RunContinues(i)
               ELSE /\ inv'[i].consecutiveErrors = inv[i].consecutiveErrors + 1
                    /\ IF inv'[i].consecutiveErrors >= maxConsecutiveErrors
                         THEN inv'[i].pc = "catch" /\ inv'[i].err = "too_many_errors_last_401"
                         ELSE RunContinues(i)
    ]_vars

\* C34 witness: a search returned a 401: the key is invalid, every scout is
\* as active as before, the error is counted once and the run is about to
\* send it to the model
C34_Witness ==
  \E i \in Inv :
    /\ inv[i].pc = "chat" /\ inv[i].toolResult = "error401"
    /\ inv[i].consecutiveErrors = 1 /\ inv[i].stepNumber = 2
    /\ keyStatus[Owner[inv[i].sid]] = "invalid"
    /\ \A s \in Scouts : scouts[s].is_active
    /\ executions[inv[i].eid].status = "running"


\* A step of the reaper: the only step that leaves the invocations, the
\* environment and the clock as they are
ReaperStep == inv' = inv /\ env' = env /\ now' = now

\* C35: the reaper sets the executions that are running and at least
\* StaleAfter old to failed with reason stale, and changes no other
\* execution, no scout, no step and no key
C35_ReaperFrame ==
  [][ ReaperStep
      => /\ scouts' = scouts /\ steps' = steps
         /\ keyStatus' = keyStatus /\ emails' = emails
         /\ DOMAIN executions' = DOMAIN executions
         /\ \A e \in ExecIds :
              IF executions[e].status = "running"
                 /\ now - executions[e].created_at >= StaleAfter
                THEN /\ executions'[e].status = "failed"
                     /\ executions'[e].error_message = "stale"
                     /\ executions'[e].scout_id = executions[e].scout_id
                     /\ executions'[e].created_at = executions[e].created_at
                     /\ executions'[e].results_summary = executions[e].results_summary
                ELSE executions'[e] = executions[e] ]_vars

\* C35 witness: the reaper has failed the execution 1 and has left alone
\* the execution 2 of the other scout, which is running and younger than
\* the threshold
C35_Witness ==
  /\ Len(executions) = 2
  /\ executions[1].status = "failed" /\ executions[1].error_message = "stale"
  /\ executions[1].writes = 1
  /\ executions[2].status = "running"
  /\ executions[2].created_at < executions[1].completed_at
  /\ executions[1].completed_at - executions[2].created_at < StaleAfter
  /\ scouts[executions[1].scout_id].last_run_at = 0
  /\ scouts[executions[1].scout_id].consecutive_failures = 0


\* C36: when the dispatcher fires a request for a scout, at least
\* period(frequency) has elapsed since the end of every run of the scout
\* that has ended, completed or failed, by the executor or by the reaper
C36_NoDispatchWithinPeriod ==
  [][ env'.dispatches # env.dispatches
      => \A s \in Scouts :
           env'.dispatched[s] > env.dispatched[s]
           => \A e \in ExecIds :
                (executions[e].scout_id = s /\ executions[e].status \in {"completed", "failed"})
                => now - executions[e].completed_at >= Period(scouts[s].frequency) ]_vars


\* C37: a step whose status is completed keeps that status in every later
\* state of the run: no step of any execution goes from completed to failed
C37_CompletedStepStaysCompleted ==
  [][ \A e \in ExecIds : \A k \in DOMAIN steps[e] :
        steps[e][k].status = "completed"
        => (k \in DOMAIN steps'[e] /\ steps'[e][k].status = "completed") ]_vars


\* C38: an invocation is answered 200 exactly when it passed the entry
\* checks and the running check and the agent returned (also when the
\* execution ended failed, and when the execution row could not be created),
\* 500 exactly when an entry check failed before the agent started, and 409
\* exactly when the running check found a running execution of the scout
InAgent(r) == r.pc \notin {"idle", "done", "off", "check_running"}
Answered(i) == inv'[i] # inv[i] /\ inv'[i].pc = "done"
C38_ResponseCodes ==
  [][ \A i \in Inv :
        Answered(i)
        => /\ inv'[i].resp \in {200, 409, 500}
           /\ inv'[i].resp = 200 <=> InAgent(inv[i])
           /\ inv'[i].resp = 500 <=> (Free(i) /\ inv'[i].eid = 0)
           /\ inv'[i].resp = 409
                <=> (inv[i].pc = "check_running" /\ RunningOf(inv[i].sid) # {}) ]_vars
C38_Witness ==
  /\ \E i \in Inv : /\ inv[i].pc = "done" /\ inv[i].resp = 200 /\ inv[i].eid # 0
                    /\ executions[inv[i].eid].status = "failed"
  /\ \E i \in Inv : inv[i].pc = "done" /\ inv[i].resp = 200 /\ inv[i].eid = 0


\* C39: a step that changes a scout's is_active from false to true is a
\* step of the user's active toggle, so no step of the executor, of the
\* reaper or of update_scout_config activates a scout; and a step of
\* update_scout_config leaves is_active, last_run_at and
\* consecutive_failures of every scout as they were
ToggleStep == \E s \in Scouts, checked \in BOOLEAN : handleActiveToggle(s, checked)
ConfigStep == \E s \in Scouts, params \in ConfigParams : update_scout_config(s, params)
C39_OnlyToggleActivates ==
  [][ /\ (\E s \in Scouts : ~scouts[s].is_active /\ scouts'[s].is_active) => ToggleStep
      /\ ConfigStep
         => \A s \in Scouts :
              /\ scouts'[s].is_active = scouts[s].is_active
              /\ scouts'[s].last_run_at = scouts[s].last_run_at
              /\ scouts'[s].consecutive_failures = scouts[s].consecutive_failures ]_vars
\* C39 witness: the scout 1 was disabled by its third failure in a row, its
\* configuration was updated after that, and it is still inactive
C39_Witness ==
  /\ ~scouts[1].is_active
  /\ scouts[1].consecutive_failures >= DisableAfter
  /\ scouts[1].frequency = "weekly"
  /\ scouts[1].complete
  /\ \E i \in Inv : inv[i].pc = "done" /\ inv[i].resp = 200

====
